---- MODULE Spec2Model ----
(***************************************************************************)
(* The dashboard client of lean-cli (api/client.go): base URL resolution,  *)
(* the request pipeline doRequest, the two-factor challenge handler        *)
(* checkAndDo2FA and the file-backed cookie jar shared across processes.   *)
(***************************************************************************)
EXTENDS Integers, Sequences, FiniteSets, TLC

(* ------------------------------ bounds -------------------------------- *)

\* doRequest calls in one behaviour
MaxCalls == 1
\* length of the answer typed at the two-factor prompt
MaxLen == 2

(* --------------------------- base URL table --------------------------- *)

\* regions.Region values; "invalid" and "xx" are not in the table
Regions == {"cn", "us", "tab", "invalid", "xx"}

dashboardBaseUrls ==
    [r \in {"cn", "us", "tab"} |->
        CASE r = "cn"  -> "https://leancloud.cn"
          [] r = "us"  -> "https://us.leancloud.cn"
          [] r = "tab" -> "https://tab.leancloud.cn"]

TableOrigins == {dashboardBaseUrls[r] : r \in DOMAIN dashboardBaseUrls}

\* values of the environment variable LEANCLOUD_DASHBOARD ("" is unset);
\* "%zz" is a value url.Parse rejects
EnvValues == {"", "https://dash.example", "https://leancloud.cn", "%zz"}

\* application IDs a Client may carry ("" is none)
AppIDs == {"", "app-cn", "app-us", "app-tab", "app-xx", "app-unknown"}

\* apps.GetAppRegion: the region recorded for an application, or an error
GetAppRegion(appID) ==
    CASE appID = "app-cn"  -> [region |-> "cn",  err |-> FALSE]
      [] appID = "app-us"  -> [region |-> "us",  err |-> FALSE]
      [] appID = "app-tab" -> [region |-> "tab", err |-> FALSE]
      [] appID = "app-xx"  -> [region |-> "xx",  err |-> FALSE]
      [] OTHER             -> [region |-> "invalid", err |-> TRUE]

\* the outcome of GetBaseURL: a returned URL or a panic, and whether the
\* resolver was called on the way
Returned(u, consulted) ==
    [panic |-> FALSE, url |-> u, why |-> "", resolver |-> consulted]
Panicked(why, consulted) ==
    [panic |-> TRUE, url |-> "", why |-> why, resolver |-> consulted]

LookupRegion(region, consulted) ==
    IF region \in DOMAIN dashboardBaseUrls
    THEN Returned(dashboardBaseUrls[region], consulted)
    ELSE Panicked("invalid region", consulted)

\* variants of GetBaseURL: one that never reads the override, one that falls
\* back to an origin for an unknown region, one that prefers the client's own
\* Region, one with a wrong table entry
GetBaseURLNoEnvCheck(envBaseURL, c) ==
    IF c.AppID # ""
    THEN LET r == GetAppRegion(c.AppID)
         IN  IF r.err THEN Panicked("resolver", TRUE)
             ELSE LookupRegion(r.region, TRUE)
    ELSE LookupRegion(c.Region, FALSE)

GetBaseURLFallback(envBaseURL, c) ==
    IF envBaseURL # "" THEN Returned(envBaseURL, FALSE)
    ELSE IF c.AppID # ""
    THEN LET r == GetAppRegion(c.AppID)
         IN  IF r.err THEN Panicked("resolver", TRUE)
             ELSE IF r.region \in DOMAIN dashboardBaseUrls
                  THEN Returned(dashboardBaseUrls[r.region], TRUE)
                  ELSE Returned(dashboardBaseUrls["cn"], TRUE)
    ELSE IF c.Region \in DOMAIN dashboardBaseUrls
         THEN Returned(dashboardBaseUrls[c.Region], FALSE)
         ELSE Returned(dashboardBaseUrls["cn"], FALSE)

GetBaseURLOwnRegion(envBaseURL, c) ==
    IF envBaseURL # "" THEN Returned(envBaseURL, FALSE)
    ELSE IF c.AppID # "" /\ c.Region \notin DOMAIN dashboardBaseUrls
    THEN LET r == GetAppRegion(c.AppID)
         IN  IF r.err THEN Panicked("resolver", TRUE)
             ELSE LookupRegion(r.region, TRUE)
    ELSE LookupRegion(c.Region, FALSE)

GetBaseURLShifted(envBaseURL, c) ==
    IF envBaseURL # "" THEN Returned(envBaseURL, FALSE)
    ELSE IF c.AppID # ""
    THEN LET r == GetAppRegion(c.AppID)
         IN  IF r.err THEN Panicked("resolver", TRUE)
             ELSE LookupRegion(r.region, TRUE)
    ELSE IF c.Region = "tab" THEN Returned(dashboardBaseUrls["us"], FALSE)
         ELSE LookupRegion(c.Region, FALSE)

\* Client.GetBaseURL, given the value of LEANCLOUD_DASHBOARD
GetBaseURL(envBaseURL, c) ==
    IF envBaseURL # "" THEN Returned(envBaseURL, FALSE)
    ELSE IF c.AppID # ""
    THEN LET r == GetAppRegion(c.AppID)
         IN  IF r.err THEN Panicked("resolver", TRUE)
             ELSE LookupRegion(r.region, TRUE)
    ELSE LookupRegion(c.Region, FALSE)

(* ------------------------------ cookie jar ---------------------------- *)

\* the path both newCookieJar and checkAndDo2FA build with filepath.Join
ConfigDir == <<"cfg">>
Join(dir, elems) == dir \o elems
Paths == {Join(ConfigDir, <<"leancloud", "cookies">>)}

CookieNames == {"XSRF-TOKEN", "sid"}
Hosts == TableOrigins \cup (EnvValues \ {""})
Keys == Hosts \X CookieNames

\* a jar maps (host, name) to an entry; Absent marks no cookie
Absent == [Value |-> "", Persistent |-> FALSE, Updated |-> 0]
EmptyJar == [k \in Keys |-> Absent]

\* what a response's Set-Cookie header may carry
NoCookie == [Name |-> "", Value |-> "", Persistent |-> FALSE]
SetCookieValues ==
    { NoCookie,
      [Name |-> "XSRF-TOKEN", Value |-> "x1", Persistent |-> TRUE],
      [Name |-> "sid", Value |-> "s1", Persistent |-> FALSE] }

\* Jar.SetCookies for the response of a request to host
SetCookies(jar, host, ck, now) ==
    IF ck = NoCookie \/ host \notin Hosts THEN jar
    ELSE [jar EXCEPT ![<<host, ck.Name>>] =
             [Value |-> ck.Value, Persistent |-> ck.Persistent, Updated |-> now]]

\* Jar.Cookies(u): the value of the named cookie for the host, "" if none
CookieValue(jar, host, name) ==
    IF host \in Hosts /\ jar[<<host, name>>] # Absent
    THEN jar[<<host, name>>].Value ELSE ""

\* the jar's merge: the more recently updated entry of a key wins
Merge(jar, stored) ==
    [k \in Keys |->
        IF stored[k] # Absent
           /\ (jar[k] = Absent \/ stored[k].Updated > jar[k].Updated)
        THEN stored[k] ELSE jar[k]]

\* only persistent cookies are written to the file
PersistentEntries(jar) ==
    [k \in Keys |-> IF jar[k] # Absent /\ jar[k].Persistent THEN jar[k] ELSE Absent]

\* cookiejar.New: a jar loaded from the file at path
LoadJar(files, path) == Merge(EmptyJar, files[path])

\* Jar.Save: merge what the file holds into the jar, then write the jar
\* (SavedJarNoMerge: a variant that writes the jar over the file)
SavedJarNoMerge(jar, files, path) == jar

SavedJar(jar, files, path) == Merge(jar, files[path])

SavedFiles(jar, files, path) ==
    [files EXCEPT ![path] = PersistentEntries(SavedJar(jar, files, path))]

(* ------------------------------ responses ----------------------------- *)

StatusCodes == {200, 204, 401, 404}

\* Content-Type header values, as sequences of pieces
JSONType == "application/json"
ContentTypes == { <<" ", JSONType, "; charset=utf-8">>, <<"text/plain">> }

\* response bodies: not JSON, a challenge, a structured error
Garbage == [json |-> FALSE, token |-> "", code |-> 0, error |-> ""]
Bodies ==
    { Garbage,
      [json |-> TRUE, token |-> "abc", code |-> 0, error |-> ""],
      [json |-> TRUE, token |-> "", code |-> 1, error |-> "bad request"] }

Responses ==
    [StatusCode : StatusCodes, ContentType : ContentTypes,
     Body : Bodies, SetCookie : SetCookieValues]

NoResp == [StatusCode |-> 0, ContentType |-> <<>>, Body |-> Garbage,
           SetCookie |-> NoCookie]

\* grequests.Response.Ok
\* (OkBelow500: a variant that takes every status under 500 for a success)
OkBelow500(resp) == resp.StatusCode >= 200 /\ resp.StatusCode < 500

Ok(resp) == resp.StatusCode >= 200 /\ resp.StatusCode < 300

\* strings.TrimSpace
RECURSIVE TrimLeft(_)
TrimLeft(s) == IF s # <<>> /\ Head(s) = " " THEN TrimLeft(Tail(s)) ELSE s
RECURSIVE TrimRight(_)
TrimRight(s) ==
    IF s # <<>> /\ s[Len(s)] = " " THEN TrimRight(SubSeq(s, 1, Len(s) - 1)) ELSE s
TrimSpace(s) == TrimRight(TrimLeft(s))

\* strings.HasPrefix(strings.TrimSpace(Content-Type), "application/json")
IsJSONTyped(resp) ==
    LET ct == TrimSpace(resp.ContentType)
    IN  ct # <<>> /\ Head(ct) = JSONType

\* errors returned to the caller
NoErr == [kind |-> "none", status |-> 0, method |-> "", path |-> "",
          code |-> 0, error |-> ""]
Err(kind) == [NoErr EXCEPT !.kind = kind]

\* NewErrorFromResponse: the structured error of a JSON error body
NewErrorFromResponse(resp) ==
    [NoErr EXCEPT !.kind = "structured", !.code = resp.Body.code,
                  !.error = resp.Body.error]

\* fmt.Errorf("HTTP Error: %d, %s %s", status, method, path)
HTTPError(status, method, path) ==
    [NoErr EXCEPT !.kind = "http", !.status = status, !.method = method,
                  !.path = path]

\* the classification of a response that is not Ok (ClassifyAlwaysGeneric: a
\* variant without the Content-Type test)
ClassifyAlwaysGeneric(resp, method, path) ==
    HTTPError(resp.StatusCode, method, path)

ClassifyError(resp, method, path) ==
    IF IsJSONTyped(resp) THEN NewErrorFromResponse(resp)
    ELSE HTTPError(resp.StatusCode, method, path)

\* resp.JSON(&result): the token of the body, or a parse error
ParseToken(resp) ==
    IF resp.Body.json THEN [err |-> FALSE, token |-> resp.Body.token]
    ELSE [err |-> TRUE, token |-> ""]

(* ---------------------------- two-factor code ------------------------- *)

Chars == {"7", "-", "x"}
Digits == {"7"}
DigitValue(ch) == 7

Answers == UNION {[1..n -> Chars] : n \in 0..MaxLen}

RECURSIVE DigitsValue(_)
DigitsValue(s) ==
    IF s = <<>> THEN 0
    ELSE 10 * DigitsValue(SubSeq(s, 1, Len(s) - 1)) + DigitValue(s[Len(s)])

AllDigits(s) == s # <<>> /\ \A i \in 1..Len(s) : s[i] \in Digits

\* strconv.Atoi
Atoi(s) ==
    IF s # <<>> /\ Head(s) = "-"
    THEN IF AllDigits(Tail(s)) THEN [err |-> FALSE, n |-> 0 - DigitsValue(Tail(s))]
         ELSE [err |-> TRUE, n |-> 0]
    ELSE IF AllDigits(s) THEN [err |-> FALSE, n |-> DigitsValue(s)]
         ELSE [err |-> TRUE, n |-> 0]

\* Get2FACode, given what the user typed at the prompt (Get2FACodeLenient: a
\* variant that takes an answer that is no number for 0)
Get2FACodeLenient(answer) ==
    IF Atoi(answer).err THEN [err |-> FALSE, code |-> 0]
    ELSE [err |-> FALSE, code |-> Atoi(answer).n]

Get2FACode(answer) ==
    IF Atoi(answer).err THEN [err |-> TRUE, code |-> 0]
    ELSE [err |-> FALSE, code |-> Atoi(answer).n]

(* ------------------------------ the state ----------------------------- *)

VARIABLES
    env,      \* LEANCLOUD_DASHBOARD
    fs,       \* the cookie files: path -> stored jar
    client,   \* the Client: CookieJar, Region, AppID
    clock,    \* the time of the latest cookie update
    calls,    \* doRequest calls made so far
    pc,       \* where the current doRequest call stands
    method,   \* the verb of the current call
    resp,     \* the response in hand
    token,    \* the token parsed from the challenge
    code,     \* the code Get2FACode returned
    exJar,    \* the jar checkAndDo2FA opened
    log,      \* what the current call did, in order
    result,   \* what the last call returned
    baseURL   \* what the last direct GetBaseURL call returned

vars == <<env, fs, client, clock, calls, pc, method, resp, token, code,
          exJar, log, result, baseURL>>

Path == "/1.1/clients/self/apps"
ExchangePath == "/1.1/do2fa"
\* the verbs doRequest dispatches (VerbsWithTrace: a variant with one more)
VerbsWithTrace == {"GET", "POST", "PUT", "DELETE", "PATCH", "TRACE"}

Verbs == {"GET", "POST", "PUT", "DELETE", "PATCH"}
\* the verbs callers pass in this model; "TRACE" is none of doRequest's
Methods == {"PATCH", "TRACE"}

NoClient == [CookieJar |-> EmptyJar, Region |-> "invalid", AppID |-> "",
             built |-> FALSE]
NoURL == [panic |-> FALSE, url |-> "", why |-> "none", resolver |-> FALSE]
NoResult == [kind |-> "none", resp |-> NoResp, err |-> NoErr]
RespResult(r) == [kind |-> "resp", resp |-> r, err |-> NoErr]
ErrResult(e) == [kind |-> "err", resp |-> NoResp, err |-> e]
PanicResult(why) == [kind |-> "panic", resp |-> NoResp, err |-> Err(why)]

\* url.Parse
UrlParses(u) == u # "%zz"

\* the JSON body of a request (ExchangeJSONNoCode: a variant that leaves the
\* code out)
NoJSON == [token |-> "", code |-> 0, set |-> FALSE]
ExchangeJSONNoCode(t, c) == [token |-> t, code |-> 0, set |-> TRUE]
ExchangeJSON(t, c) == [token |-> t, code |-> c, set |-> TRUE]

\* log events: an HTTP request sent, a step of the challenge handler, an
\* operation on a jar; ok tells whether it succeeded, status is the status of
\* the response to a request (0: none), wrote tells whether a save changed
\* what the file holds, defaults whether a request went out with the options
\* client.options() built
Event(op, ok) ==
    [op |-> op, ok |-> ok, method |-> "", url |-> <<"", "">>, xsrf |-> "",
     json |-> NoJSON, text |-> <<>>, jar |-> "", path |-> <<>>, status |-> 0,
     wrote |-> FALSE, defaults |-> FALSE]
HTTPEvent(m, url, xsrf, body, out) ==
    [Event("http", ~out.err) EXCEPT !.method = m, !.url = url, !.xsrf = xsrf,
                                    !.json = body,
                                    !.status = IF out.err THEN 0
                                               ELSE out.resp.StatusCode]
ParseEvent(parsed) ==
    [Event("parse", ~parsed.err) EXCEPT !.json.token = parsed.token]
CodeEvent(answer, got) ==
    [Event("getcode", ~got.err) EXCEPT !.text = answer, !.json.code = got.code]
JarEvent(op, jar, path, ok) ==
    [Event(op, ok) EXCEPT !.jar = jar, !.path = path]
SaveEvent(jar, path, files, after) ==
    [JarEvent("save", jar, path, TRUE) EXCEPT !.wrote = (after # files)]

Events(op) == {i \in 1..Len(log) : log[i].op = op}
Saves(jar) == {i \in Events("save") : log[i].jar = jar}
ExchangePosts ==
    {i \in Events("http") : log[i].method = "POST" /\ log[i].url[2] = ExchangePath}

TypeOK ==
    /\ env \in EnvValues
    /\ fs \in [Paths -> [Keys -> [Value : STRING, Persistent : BOOLEAN, Updated : Nat]]]
    /\ client.Region \in Regions /\ client.AppID \in AppIDs
    /\ calls \in 0..MaxCalls
    /\ pc \in {"start", "new", "idle", "getcode", "open", "post", "savex", "save",
               "done", "fatal"}
    /\ result.kind \in {"none", "resp", "err", "panic"}

\* the clients and overrides the pipeline is run with
ClientRegions == {"us", "xx"}
ClientApps == {"app-tab", "app-unknown"}
ClientEnvs == {"", "https://dash.example", "%zz"}

Init ==
    /\ env \in ClientEnvs
    /\ fs = [p \in Paths |-> EmptyJar]
    /\ client = NoClient
    /\ clock = 0
    /\ calls = 0
    /\ pc = "start"
    /\ method = ""
    /\ resp = NoResp
    /\ token = ""
    /\ code = 0
    /\ exJar = EmptyJar
    /\ log = <<>>
    /\ result = NoResult
    /\ baseURL = NoURL

(* ----------------------------- constructors --------------------------- *)

CookiePath == Join(Join(ConfigDir, <<"leancloud">>), <<"cookies">>)

\* newCookieJar: the jar of the cookie file (newCookieJarEmpty: a variant that
\* does not load it)
newCookieJarEmpty(files) == EmptyJar

newCookieJar(files) == LoadJar(files, CookiePath)

\* a process builds a Client; newCookieJar panics when the file cannot be
\* read
Construct(region, appID, readable) ==
    /\ pc \in {"start", "idle", "fatal"}
    /\ IF readable
       THEN /\ client' = [CookieJar |-> newCookieJar(fs), Region |-> region,
                          AppID |-> appID, built |-> TRUE]
            /\ pc' = "new"
            /\ result' = NoResult
       ELSE /\ client' = NoClient
            /\ pc' = "fatal"
            /\ result' = PanicResult("newCookieJar")
    /\ method' = ""
    /\ resp' = NoResp
    /\ token' = ""
    /\ code' = 0
    /\ exJar' = EmptyJar
    /\ log' = <<>>
    /\ UNCHANGED <<env, fs, clock, calls, baseURL>>

NewClientByRegion(region, readable) == Construct(region, "", readable)

\* the Region of a Client built by app is the zero Region
NewClientByApp(appID, readable) == Construct("invalid", appID, readable)

\* the caller is done with what the last call returned: of the call only
\* whether it succeeded is remembered.  The client can be used again, or the
\* process ends and a later one builds its own
Finish ==
    /\ pc = "done"
    /\ pc' = "idle"
    /\ method' = ""
    /\ resp' = NoResp
    /\ log' = <<>>
    /\ result' = [kind |-> result.kind, resp |-> NoResp, err |-> NoErr]
    /\ UNCHANGED <<env, fs, client, clock, calls, token, code, exJar, baseURL>>

\* a direct call of client.GetBaseURL()
CallGetBaseURL ==
    /\ pc = "new"
    /\ client.built
    /\ baseURL' = GetBaseURL(env, client)
    /\ UNCHANGED <<env, fs, client, clock, calls, pc, method, resp, token, code,
                   exJar, log, result>>

(* ------------------------------ doRequest ----------------------------- *)

\* what the network gives back: a transport error or a response
TransportError == [err |-> TRUE, resp |-> NoResp]
Outcomes == {TransportError} \cup {[err |-> FALSE, resp |-> r] : r \in Responses}

\* the call returns res, r being the last response it received; its other
\* locals go out of scope
Return(res, r) ==
    /\ pc' = "done"
    /\ result' = res
    /\ resp' = r
    /\ token' = ""
    /\ code' = 0
    /\ exJar' = EmptyJar

\* the call panics
Panic(why) ==
    /\ pc' = "fatal"
    /\ result' = PanicResult(why)
    /\ resp' = NoResp
    /\ token' = ""
    /\ code' = 0
    /\ exJar' = EmptyJar

\* doRequest from the response checkAndDo2FA returned: an error for a
\* response that is not Ok, otherwise on to saving the client's jar
\* (ClassifyNoSave: a variant that returns the response without saving)
ClassifyNoSave(r, m) ==
    IF ~Ok(r)
    THEN Return(ErrResult(ClassifyError(r, m, Path)), r)
    ELSE Return(RespResult(r), r)

Classify(r, m) ==
    IF ~Ok(r)
    THEN Return(ErrResult(ClassifyError(r, m, Path)), r)
    ELSE /\ pc' = "save"
         /\ resp' = r
         /\ result' = NoResult
         /\ token' = ""
         /\ code' = 0
         /\ exJar' = EmptyJar

\* checkAndDo2FA on the response to the original request, up to the prompt
\* (Check2FAIgnoreParse: a variant that goes on to the prompt when the
\* challenge does not parse; Check2FAAnyError: a variant that takes every
\* status from 400 up for a challenge)
Check2FAIgnoreParse(r, m, sent) ==
    IF r.StatusCode # 401
    THEN /\ log' = <<sent>>
         /\ Classify(r, m)
    ELSE /\ log' = <<sent, ParseEvent(ParseToken(r))>>
         /\ pc' = "getcode"
         /\ token' = ParseToken(r).token
         /\ resp' = NoResp
         /\ result' = NoResult
         /\ code' = 0
         /\ exJar' = EmptyJar

Check2FAAnyError(r, m, sent) ==
    IF r.StatusCode < 400
    THEN /\ log' = <<sent>>
         /\ Classify(r, m)
    ELSE /\ log' = <<sent, ParseEvent(ParseToken(r))>>
         /\ IF ParseToken(r).err
            THEN Return(ErrResult(Err("json")), r)
            ELSE /\ pc' = "getcode"
                 /\ token' = ParseToken(r).token
                 /\ resp' = NoResp
                 /\ result' = NoResult
                 /\ code' = 0
                 /\ exJar' = EmptyJar

Check2FA(r, m, sent) ==
    IF r.StatusCode # 401
    THEN /\ log' = <<sent>>
         /\ Classify(r, m)
    ELSE /\ log' = <<sent, ParseEvent(ParseToken(r))>>
         /\ IF ParseToken(r).err
            THEN Return(ErrResult(Err("json")), r)
            ELSE /\ pc' = "getcode"
                 /\ token' = ParseToken(r).token
                 /\ resp' = NoResp
                 /\ result' = NoResult
                 /\ code' = 0
                 /\ exJar' = EmptyJar

\* the RequestOptions of a call: none (nil), or the caller's own, which carry
\* the caller's X-XSRF-TOKEN header and no cookie jar
NilOptions == [given |-> FALSE, xsrf |-> "", UseCookieJar |-> FALSE]
CallerOptions == [given |-> TRUE, xsrf |-> "caller-token", UseCookieJar |-> FALSE]
OptionValues == {NilOptions, CallerOptions}

\* client.options(): the default options, for the base URL base
\* (optionsOtherCookie: a variant that reads another cookie)
optionsOtherCookie(c, base) ==
    [given |-> TRUE, xsrf |-> CookieValue(c.CookieJar, base, "sid"),
     UseCookieJar |-> TRUE]

options(c, base) ==
    [given |-> TRUE, xsrf |-> CookieValue(c.CookieJar, base, "XSRF-TOKEN"),
     UseCookieJar |-> TRUE]

\* doRequest, up to the first thing it waits for.  With nil options the
\* defaults are built first, and building them panics on a base URL that
\* cannot be had or parsed; with the caller's options the verb is looked at
\* first and a base URL that does not parse fails in the transport
Request(m, out, opts) ==
    /\ pc \in {"new", "idle"}
    /\ client.built
    /\ calls < MaxCalls
    /\ calls' = calls + 1
    /\ method' = m
    /\ UNCHANGED <<env, fs, baseURL>>
    /\ LET base == GetBaseURL(env, client)
           o == IF opts.given THEN opts ELSE options(client, base.url)
           got == IF UrlParses(base.url) THEN out ELSE TransportError
           sent == [HTTPEvent(m, <<base.url, Path>>, o.xsrf, NoJSON, got)
                       EXCEPT !.defaults = ~opts.given]
       IN  IF base.panic \/ m \notin Verbs \/ (~opts.given /\ ~UrlParses(base.url))
           THEN /\ Panic(IF opts.given /\ m \notin Verbs THEN "invalid method"
                         ELSE IF base.panic THEN base.why
                         ELSE IF ~UrlParses(base.url) THEN "url.Parse"
                         ELSE "invalid method")
                /\ log' = <<>>
                /\ UNCHANGED <<client, clock>>
           ELSE IF got.err
           THEN /\ Return(ErrResult(Err("transport")), NoResp)
                /\ log' = <<sent>>
                /\ UNCHANGED <<client, clock>>
           ELSE /\ client' = IF o.UseCookieJar
                             THEN [client EXCEPT !.CookieJar =
                                      SetCookies(@, base.url, got.resp.SetCookie,
                                                 clock + 1)]
                             ELSE client
                /\ clock' = IF got.resp.SetCookie = NoCookie \/ ~o.UseCookieJar
                            THEN clock ELSE clock + 1
                /\ Check2FA(got.resp, m, sent)

\* checkAndDo2FA asks for the code
AcquireCode(answer) ==
    /\ pc = "getcode"
    /\ log' = Append(log, CodeEvent(answer, Get2FACode(answer)))
    /\ IF Get2FACode(answer).err
       THEN Return(ErrResult(Err("validation")), NoResp)
       ELSE /\ pc' = "open"
            /\ code' = Get2FACode(answer).code
            /\ UNCHANGED <<resp, token, exJar, result>>
    /\ UNCHANGED <<env, fs, client, clock, calls, method, baseURL>>

ExchangeJarPath == Join(ConfigDir, <<"leancloud", "cookies">>)

\* checkAndDo2FA opens the jar for the exchange: a jar of its own, loaded
\* from the file (OpenExchangeJarShared: a variant that takes the client's)
OpenExchangeJarShared(readable) ==
    /\ pc = "open"
    /\ log' = Append(log, JarEvent("open", "exchange", ExchangeJarPath, readable))
    /\ IF ~readable
       THEN Return(ErrResult(Err("jar")), NoResp)
       ELSE /\ pc' = "post"
            /\ exJar' = client.CookieJar
            /\ UNCHANGED <<resp, token, code, result>>
    /\ UNCHANGED <<env, fs, client, clock, calls, method, baseURL>>

OpenExchangeJar(readable) ==
    /\ pc = "open"
    /\ log' = Append(log, JarEvent("open", "exchange", ExchangeJarPath, readable))
    /\ IF ~readable
       THEN Return(ErrResult(Err("jar")), NoResp)
       ELSE /\ pc' = "post"
            /\ exJar' = LoadJar(fs, ExchangeJarPath)
            /\ UNCHANGED <<resp, token, code, result>>
    /\ UNCHANGED <<env, fs, client, clock, calls, method, baseURL>>

\* checkAndDo2FA on an exchange response that is not Ok: the error of the
\* response, with nothing saved (ExchangeNotOkRetry: a variant that takes a
\* 401 for a new challenge; ExchangeNotOkSaved: a variant that saves the
\* exchange's jar before it looks at the status)
ExchangeNotOkRetry(r) ==
    IF r.StatusCode = 401 /\ ~ParseToken(r).err
    THEN /\ pc' = "getcode"
         /\ token' = ParseToken(r).token
         /\ resp' = NoResp
         /\ result' = NoResult
         /\ code' = 0
         /\ exJar' = EmptyJar
    ELSE Return(ErrResult(ClassifyError(r, "POST", "/do2fa")), r)

ExchangeNotOkSaved(r) ==
    /\ pc' = "savex"
    /\ resp' = r
    /\ UNCHANGED <<token, code, exJar, result>>

ExchangeNotOk(r) == Return(ErrResult(ClassifyError(r, "POST", "/do2fa")), r)

\* checkAndDo2FA posts the token and the code.  The options of the exchange
\* name the jar but do not set UseCookieJar, so whether the response's
\* cookies reach the jar is the transport's choice: attached
PostExchange(out, attached) ==
    /\ pc = "post"
    /\ LET base == GetBaseURL(env, client)
       IN  /\ log' = Append(log, HTTPEvent("POST", <<base.url, ExchangePath>>, "",
                                          ExchangeJSON(token, code), out))
           /\ IF out.err
              THEN /\ Return(ErrResult(Err("transport")), NoResp)
                   /\ UNCHANGED clock
              ELSE /\ clock' = IF out.resp.SetCookie = NoCookie \/ ~attached
                               THEN clock ELSE clock + 1
                   /\ IF ~Ok(out.resp)
                      THEN ExchangeNotOk(out.resp)
                      ELSE /\ pc' = "savex"
                           /\ resp' = out.resp
                           /\ exJar' = IF attached
                                       THEN SetCookies(exJar, base.url,
                                                       out.resp.SetCookie, clock + 1)
                                       ELSE exJar
                           /\ UNCHANGED <<token, code, result>>
    /\ UNCHANGED <<env, fs, client, calls, method, baseURL>>

\* checkAndDo2FA saves the exchange's jar and returns the exchange's
\* response, which doRequest then classifies
SaveExchangeJar(written) ==
    /\ pc = "savex"
    /\ log' = Append(log, IF written
                           THEN SaveEvent("exchange", ExchangeJarPath, fs,
                                          SavedFiles(exJar, fs, ExchangeJarPath))
                           ELSE JarEvent("save", "exchange", ExchangeJarPath, FALSE))
    /\ IF ~written
       THEN /\ Return(ErrResult(Err("save")), resp)
            /\ UNCHANGED fs
       ELSE /\ fs' = SavedFiles(exJar, fs, ExchangeJarPath)
            /\ Classify(resp, method)
    /\ UNCHANGED <<env, client, clock, calls, method, baseURL>>

\* doRequest saves the client's jar and returns the response
\* (SaveClientJarLenient: a variant that returns the response when the save
\* failed)
SaveClientJarLenient(written) ==
    /\ pc = "save"
    /\ log' = Append(log, IF written
                           THEN SaveEvent("client", CookiePath, fs,
                                          SavedFiles(client.CookieJar, fs, CookiePath))
                           ELSE JarEvent("save", "client", CookiePath, FALSE))
    /\ IF ~written
       THEN /\ Return(RespResult(resp), resp)
            /\ UNCHANGED <<fs, client>>
       ELSE /\ fs' = SavedFiles(client.CookieJar, fs, CookiePath)
            /\ client' = [client EXCEPT !.CookieJar = SavedJar(@, fs, CookiePath)]
            /\ Return(RespResult(resp), resp)
    /\ UNCHANGED <<env, clock, calls, method, baseURL>>

SaveClientJar(written) ==
    /\ pc = "save"
    /\ log' = Append(log, IF written
                           THEN SaveEvent("client", CookiePath, fs,
                                          SavedFiles(client.CookieJar, fs, CookiePath))
                           ELSE JarEvent("save", "client", CookiePath, FALSE))
    /\ IF ~written
       THEN /\ Return(ErrResult(Err("save")), resp)
            /\ UNCHANGED <<fs, client>>
       ELSE /\ fs' = SavedFiles(client.CookieJar, fs, CookiePath)
            /\ client' = [client EXCEPT !.CookieJar = SavedJar(@, fs, CookiePath)]
            /\ Return(RespResult(resp), resp)
    /\ UNCHANGED <<env, clock, calls, method, baseURL>>

Next ==
    \/ \E r \in ClientRegions, readable \in BOOLEAN : NewClientByRegion(r, readable)
    \/ \E a \in ClientApps, readable \in BOOLEAN : NewClientByApp(a, readable)
    \/ Finish
    \/ \E m \in Methods, out \in Outcomes, opts \in OptionValues :
          Request(m, out, opts)
    \/ \E answer \in Answers : AcquireCode(answer)
    \/ \E readable \in BOOLEAN : OpenExchangeJar(readable)
    \/ \E out \in Outcomes, attached \in BOOLEAN : PostExchange(out, attached)
    \/ \E written \in BOOLEAN : SaveExchangeJar(written)
    \/ \E written \in BOOLEAN : SaveClientJar(written)

Spec == Init /\ [][Next]_vars

(* ----------------------- GetBaseURL on its own ------------------------ *)

\* every client and every override, then one call of GetBaseURL
InitURL ==
    /\ env \in EnvValues
    /\ client \in [CookieJar : {EmptyJar}, Region : Regions, AppID : AppIDs,
                   built : {TRUE}]
    /\ fs = [p \in Paths |-> EmptyJar]
    /\ clock = 0
    /\ calls = 0
    /\ pc = "new"
    /\ method = ""
    /\ resp = NoResp
    /\ token = ""
    /\ code = 0
    /\ exJar = EmptyJar
    /\ log = <<>>
    /\ result = NoResult
    /\ baseURL = NoURL

NextURL == CallGetBaseURL

SpecURL == InitURL /\ [][NextURL]_vars

(* -------------------- requests over a stored cookie file -------------- *)

\* the cookie file as earlier runs can have left it: empty, or holding the
\* persistent XSRF-TOKEN cookies of two hosts
StoredCookie(v) == [Value |-> v, Persistent |-> TRUE, Updated |-> 0]
StoredJar ==
    [EmptyJar EXCEPT ![<<"https://us.leancloud.cn", "XSRF-TOKEN">>] = StoredCookie("x0"),
                     ![<<"https://dash.example", "XSRF-TOKEN">>] = StoredCookie("x9")]
StoredFiles == {EmptyJar, StoredJar}

\* a process starts over such a file, builds its client and sends a request
InitXSRF ==
    /\ env \in ClientEnvs
    /\ fs \in [Paths -> StoredFiles]
    /\ client = NoClient
    /\ clock = 0
    /\ calls = 0
    /\ pc = "start"
    /\ method = ""
    /\ resp = NoResp
    /\ token = ""
    /\ code = 0
    /\ exJar = EmptyJar
    /\ log = <<>>
    /\ result = NoResult
    /\ baseURL = NoURL

NextXSRF ==
    \/ \E r \in ClientRegions, readable \in BOOLEAN : NewClientByRegion(r, readable)
    \/ \E a \in ClientApps, readable \in BOOLEAN : NewClientByApp(a, readable)
    \/ \E m \in Methods, out \in Outcomes, opts \in OptionValues :
          Request(m, out, opts)

SpecXSRF == InitXSRF /\ [][NextXSRF]_vars

(* ------------------------------- claims ------------------------------- *)

Succeeded == pc = "done" /\ result.kind = "resp"
TransportFailed == pc = "done" /\ result = ErrResult(Err("transport"))
\* the original response was a challenge
Challenged == Events("parse") # {}
\* a step of the log that succeeded
Did(op) == \E i \in Events(op) : log[i].ok

\* C1 as stated: a call that returns a response has saved a cookie jar exactly
\* once, whichever way it went, and a call that failed in transport has saved
\* none
C1_Original ==
    /\ Succeeded => Cardinality(Events("save")) = 1
    /\ TransportFailed => Events("save") = {}

\* C1 as amended: a call that returns a response has saved the client's jar
\* exactly once; when it went through the exchange it has before that saved
\* the exchange's jar once too, two saves to the one file; a call that failed
\* in transport has saved none
C1_Amended ==
    /\ Succeeded =>
          /\ Cardinality(Saves("client")) = 1
          /\ Cardinality(Saves("exchange")) = (IF Challenged THEN 1 ELSE 0)
          /\ \A i \in Events("save") : log[i].ok
          /\ \A i \in Saves("exchange"), j \in Saves("client") : i < j
    /\ TransportFailed => Events("save") = {}

C1_Witness ==
    /\ Succeeded
    /\ Challenged
    /\ Cardinality(Events("save")) = 2

\* C2: a call that returns a response never returns one of status 401
C2_NoBare401 ==
    (pc = "done" /\ result.kind = "resp") =>
        /\ result.resp.StatusCode # 401
        /\ result.err = NoErr

C2_Witness ==
    /\ Succeeded
    /\ Challenged
    /\ Cardinality(ExchangePosts) = 1
    /\ result.resp.StatusCode = 204

\* the body the exchange must carry: the token parsed and the code acquired
ParsedToken == (CHOOSE i \in Events("parse") : TRUE)
AcquiredCode == (CHOOSE i \in Events("getcode") : TRUE)
ExchangeAsAsked ==
    /\ Cardinality(ExchangePosts) = 1
    /\ \A i \in ExchangePosts :
          /\ log[i].url = <<GetBaseURL(env, client).url, "/1.1/do2fa">>
          /\ log[i].json.set
          /\ log[i].json.token = log[ParsedToken].json.token
          /\ log[i].json.code = log[AcquiredCode].json.code

\* C3 as stated: a call whose challenge parsed and whose code was acquired has
\* sent exactly one POST to <base-url>/1.1/do2fa, with that token and code
C3_Original ==
    (pc = "done" /\ Did("parse") /\ Did("getcode")) => ExchangeAsAsked

\* C3 as amended: the same once the exchange's cookie jar has been opened;
\* when the jar cannot be opened no POST is sent
C3_Amended ==
    /\ (pc = "done" /\ Did("parse") /\ Did("getcode") /\ Did("open"))
          => ExchangeAsAsked
    /\ (pc = "done" /\ Events("open") # {} /\ ~Did("open")) => ExchangePosts = {}
    /\ Cardinality(ExchangePosts) <= 1

C3_Witness ==
    /\ pc = "done"
    /\ Did("open")
    /\ \E i \in ExchangePosts :
          log[i].json = [token |-> "abc", code |-> 77, set |-> TRUE]

\* C4: a call whose prompt was answered with something that is no number
\* returns the validation error, has sent nothing but the original request,
\* and has opened and saved no jar
C4_NonNumericCode ==
    (pc = "done" /\ \E i \in Events("getcode") : Atoi(log[i].text).err) =>
        /\ result = ErrResult(Err("validation"))
        /\ ExchangePosts = {}
        /\ Cardinality(Events("http")) = 1
        /\ Events("open") = {}
        /\ Events("save") = {}

C4_Witness ==
    /\ pc = "done"
    /\ \E i \in Events("getcode") : log[i].text = <<"7", "x">>
    /\ result.err.kind = "validation"

Called == baseURL # NoURL

\* C6: with the override set GetBaseURL returns it, whatever the client's
\* region and app ID, and does not call the resolver
C6_OverrideWins ==
    (Called /\ env # "") =>
        /\ ~baseURL.panic
        /\ baseURL.url = env
        /\ ~baseURL.resolver

C6_Witness ==
    /\ Called
    /\ env = "https://dash.example"
    /\ client.Region = "xx"
    /\ client.AppID = "app-unknown"
    /\ baseURL.url = "https://dash.example"

\* the region GetBaseURL looks up: the resolver's for a client with an app ID
EffectiveRegion ==
    IF client.AppID # "" THEN GetAppRegion(client.AppID).region ELSE client.Region
FailsWithoutOrigin == baseURL.panic /\ baseURL.url \notin TableOrigins

\* C7 as stated: GetBaseURL on a client whose region is not in the table
\* panics and returns no origin of the table
C7_Original ==
    (Called /\ EffectiveRegion \notin DOMAIN dashboardBaseUrls) => FailsWithoutOrigin

\* C7 as amended: the same when the override is not set
C7_Amended ==
    (Called /\ env = "" /\ EffectiveRegion \notin DOMAIN dashboardBaseUrls)
        => FailsWithoutOrigin

C7_Witness ==
    /\ Called
    /\ env = ""
    /\ client.AppID = ""
    /\ client.Region = "xx"
    /\ baseURL.panic
    /\ baseURL.why = "invalid region"

\* C8: without the override, GetBaseURL on a client with an app ID returns the
\* table's origin of the region the resolver gives, whatever the client's own
\* Region, and panics when the resolver fails
C8_ByApp ==
    (Called /\ env = "" /\ client.AppID # "") =>
        LET r == GetAppRegion(client.AppID)
        IN  /\ r.err => baseURL.panic
            /\ (~r.err /\ r.region \in DOMAIN dashboardBaseUrls) =>
                  /\ ~baseURL.panic
                  /\ baseURL.url = dashboardBaseUrls[r.region]
                  /\ baseURL.resolver
            /\ (~r.err /\ r.region \notin DOMAIN dashboardBaseUrls) => baseURL.panic

C8_Witness ==
    /\ Called
    /\ env = ""
    /\ client.AppID = "app-tab"
    /\ client.Region = "us"
    /\ baseURL.url = "https://tab.leancloud.cn"

\* C9: without the override and without an app ID, GetBaseURL returns the
\* table's origin of the client's region
C9_ByRegion ==
    (Called /\ env = "" /\ client.AppID = "") =>
        /\ client.Region = "cn" =>
              (~baseURL.panic /\ baseURL.url = "https://leancloud.cn")
        /\ client.Region = "us" =>
              (~baseURL.panic /\ baseURL.url = "https://us.leancloud.cn")
        /\ client.Region = "tab" =>
              (~baseURL.panic /\ baseURL.url = "https://tab.leancloud.cn")

C9_Witness ==
    /\ Called
    /\ env = ""
    /\ client.AppID = ""
    /\ client.Region = "tab"
    /\ baseURL.url = "https://tab.leancloud.cn"

\* the call returned on the response to the original request, which was
\* neither 2xx nor 401
FailedOnOriginal ==
    /\ pc = "done"
    /\ Len(log) = 1
    /\ log[1].op = "http"
    /\ log[1].ok
    /\ ~(resp.StatusCode >= 200 /\ resp.StatusCode <= 299)
    /\ resp.StatusCode # 401

\* C10: such a call returns no response and saves no jar; its error is the
\* structured error of the body when the Content-Type is JSON, and otherwise
\* the generic error with the status, the method and the path
C10_Classification ==
    FailedOnOriginal =>
        /\ result.kind = "err"
        /\ result.resp = NoResp
        /\ Events("save") = {}
        /\ resp.ContentType = <<" ", "application/json", "; charset=utf-8">> =>
              /\ result.err.kind = "structured"
              /\ result.err.code = resp.Body.code
              /\ result.err.error = resp.Body.error
        /\ resp.ContentType = <<"text/plain">> =>
              /\ result.err.kind = "http"
              /\ result.err.status = resp.StatusCode
              /\ result.err.method = method
              /\ result.err.path = "/1.1/clients/self/apps"

C10_Witness ==
    /\ FailedOnOriginal
    /\ resp.StatusCode = 404
    /\ result.err.kind = "structured"
    /\ result.err.code = 1
    /\ result.err.error = "bad request"

\* the response to the exchange was 401
Exchange401 == \E i \in ExchangePosts : log[i].status = 401

\* C11: the exchange is one shot.  A call sends at most two requests, the
\* original once and the exchange at most once, and parses at most one
\* challenge; an exchange response of 401 ends the call with the error of
\* that response; a call that returns a response after a challenge returns
\* the exchange's response, not the 401
C11_OneShot ==
    /\ Cardinality(Events("http")) <= 2
    /\ Cardinality(Events("http") \ ExchangePosts) <= 1
    /\ Cardinality(ExchangePosts) <= 1
    /\ Cardinality(Events("parse")) <= 1
    /\ Cardinality(Events("getcode")) <= 1
    /\ (pc = "done" /\ Exchange401) =>
          /\ result.kind = "err"
          /\ result.resp = NoResp
          /\ result.err.kind \in {"structured", "http"}
          /\ result.err.kind = "http" =>
                /\ result.err.status = 401
                /\ result.err.method = "POST"
                /\ result.err.path = "/do2fa"
    /\ (Succeeded /\ ExchangePosts # {}) =>
          /\ log[1].status = 401
          /\ result.resp = resp
          /\ \A i \in ExchangePosts : log[i].status = result.resp.StatusCode

C11_Witness ==
    /\ pc = "done"
    /\ Exchange401
    /\ result.kind = "err"
    /\ result.err.kind = "http"

\* C12: a call whose requests succeeded and whose save of the client's jar
\* failed returns the error of the save and no response
C12_SaveFailure ==
    (pc = "done" /\ \E i \in Saves("client") : ~log[i].ok) =>
        /\ result.kind = "err"
        /\ result.err.kind = "save"
        /\ result.resp = NoResp
        /\ \A i \in Events("http") : log[i].ok
        /\ resp.StatusCode >= 200 /\ resp.StatusCode <= 299

C12_Witness ==
    /\ pc = "done"
    /\ Len(log) = 2
    /\ log[1].status = 200
    /\ log[2].op = "save" /\ log[2].jar = "client" /\ ~log[2].ok
    /\ result.kind = "err"

\* the steps of a call that met a challenge, in the order they are taken
HandlerOps == <<"http", "parse", "getcode", "open", "http", "save", "save">>

\* C13: after a 401 the handler parses the token, acquires the code, opens the
\* exchange's jar, posts the exchange and saves the exchange's jar, in that
\* order and each only after the one before succeeded; a challenge that does
\* not parse ends the call before the prompt and before any exchange request
C13_HandlerOrder ==
    /\ (Len(log) >= 1 /\ log[1].status = 401) =>
          /\ Len(log) >= 2 /\ Len(log) <= 7
          /\ \A i \in 1..Len(log) :
                /\ log[i].op = HandlerOps[i]
                /\ i > 1 => log[i - 1].ok
                /\ i = 5 => i \in ExchangePosts
                /\ i = 6 => (log[i].jar = "exchange" /\ log[5].status \in 200..299)
                /\ i = 7 => log[i].jar = "client"
    /\ (\E i \in Events("parse") : ~log[i].ok) =>
          /\ Events("getcode") = {}
          /\ Events("open") = {}
          /\ ExchangePosts = {}
          /\ pc = "done"
          /\ result.kind = "err" /\ result.err.kind = "json"

C13_Witness ==
    /\ pc = "done"
    /\ Len(log) = 2
    /\ log[1].status = 401
    /\ log[2].op = "parse" /\ ~log[2].ok
    /\ result.err.kind = "json"

\* C14: when the response to the original request is not 401 the handler does
\* nothing: no parse, no prompt, no jar opened, no exchange, and the response
\* in hand is the original one
C14_PassThrough ==
    (Len(log) >= 1 /\ log[1].op = "http" /\ log[1].ok /\ log[1].status # 401) =>
        /\ Events("parse") = {}
        /\ Events("getcode") = {}
        /\ Events("open") = {}
        /\ Saves("exchange") = {}
        /\ Events("http") = {1}
        /\ resp.StatusCode = log[1].status
        /\ pc \in {"save", "done"}

C14_Witness ==
    /\ pc = "save"
    /\ Len(log) = 1
    /\ log[1].status = 200
    /\ resp.StatusCode = 200

\* C15 as stated: the jar the handler opens for the exchange is backed by a
\* file path other than the client's
C15_Original ==
    \A i \in Events("open") : log[i].path # CookiePath

\* C15 as amended: the jar of the exchange is an instance of its own, freshly
\* loaded from the file: it holds what the file holds and nothing the client's
\* jar has gathered in memory; it is opened from and saved to the client's own
\* path
C15_Amended ==
    /\ \A i \in Events("open") \cup Saves("exchange") :
          /\ log[i].jar = "exchange"
          /\ log[i].path = CookiePath
          /\ log[i].path = <<"cfg", "leancloud", "cookies">>
    /\ pc = "post" => exJar = fs[CookiePath]

C15_Witness ==
    /\ pc = "post"
    /\ Did("open")
    /\ exJar # client.CookieJar

\* C16: a call with a verb that is none of GET, POST, PUT, DELETE, PATCH
\* panics: it returns nothing, sends no request, runs no handler, saves no jar
C16_InvalidVerb ==
    (method # "" /\ method \notin {"GET", "POST", "PUT", "DELETE", "PATCH"}) =>
        /\ pc = "fatal"
        /\ result.kind = "panic"
        /\ result.resp = NoResp
        /\ log = <<>>

C16_Witness ==
    /\ pc = "fatal"
    /\ method = "TRACE"
    /\ result.kind = "panic"
    /\ result.err.kind = "invalid method"

\* C17: a request sent with the default options carries in X-XSRF-TOKEN the
\* value the client's jar held, when the call was made, for the cookie
\* XSRF-TOKEN of the base URL, "" when it held none; a request sent with the
\* caller's options carries the caller's header; a call with a verb of
\* doRequest's that does not panic sends its request whatever the jar holds
C17_XSRFHeader ==
    [][(pc \in {"new", "idle"} /\ calls' = calls + 1) =>
          /\ Len(log') >= 1 =>
                /\ log'[1].op = "http"
                /\ log'[1].defaults =>
                      log'[1].xsrf =
                         client.CookieJar[<<GetBaseURL(env, client).url,
                                            "XSRF-TOKEN">>].Value
                /\ ~log'[1].defaults => log'[1].xsrf = "caller-token"
          /\ result'.kind # "panic" => Len(log') >= 1
      ]_vars

C17_Witness ==
    /\ Len(log) >= 1
    /\ log[1].op = "http"
    /\ log[1].defaults
    /\ log[1].xsrf = "x0"
    /\ log[1].url[1] = "https://us.leancloud.cn"

Failed == pc = "done" /\ result.kind = "err"

\* C19 as stated: a call that returns an error has saved no jar
C19_Original ==
    Failed => \A i \in Events("save") : ~log[i].ok

\* C19 as amended: a call that returns an error has not saved the client's
\* jar, and has saved the exchange's jar on one path only: the exchange
\* succeeded, its jar was saved, and the save of the client's jar then
\* failed.  The file changes in no step but a save that succeeded
C19_Amended ==
    /\ [](Failed =>
             /\ \A i \in Saves("client") : ~log[i].ok
             /\ (\E i \in Events("save") : log[i].ok) =>
                   /\ result.err.kind = "save"
                   /\ Len(log) = 7
                   /\ log[6].jar = "exchange" /\ log[6].ok
                   /\ log[7].jar = "client" /\ ~log[7].ok)
    /\ [][fs' # fs =>
             /\ Len(log') = Len(log) + 1
             /\ log'[Len(log')].op = "save"
             /\ log'[Len(log')].ok
             /\ log'[Len(log')].wrote
         ]_vars

C19_Witness ==
    /\ Failed
    /\ result.err.kind = "save"
    /\ Len(log) = 7
    /\ log[6].ok /\ log[6].wrote
    /\ ~log[7].ok

====
